---- MODULE Spec2Model ----
(***************************************************************************)
(* The user routes of src/users/users.routes.ts over the record store of    *)
(* ./user.database.  Every handler is an async function: it runs up to its  *)
(* next `await database.x(...)`, the store call is one atomic step of the    *)
(* store, and the handler resumes with its result (or in its catch block    *)
(* when the call threw).  One action of the model is one such resumption:   *)
(* the store call the handler is waiting on, followed by the handler's code  *)
(* up to its next await or its response.                                     *)
(***************************************************************************)
EXTENDS Integers, Sequences, FiniteSets, TLC

\* ------------------------------------------------------------------ bounds
\* create() is called at most MaxId times (ids are 1..MaxId).
MaxId == 2

\* Request slots: handlers that may be in flight at the same time.
Reqs == {"r1", "r2"}

\* The one slot used when requests are handled one at a time.
SeqReqs == {"r1"}

\* Field values; "" is a field that is absent (undefined) or empty.
Names == {"u1", "u2"}
Emails == {"e1", "e2"}
Passwords == {"p1", "p2"}

Ids == 1..MaxId

\* ------------------------------------------------------------------ values
\* null / undefined where a UnitUser is expected.
NoUser == [id |-> 0, username |-> "", email |-> "", password |-> ""]

\* A request body; GET and DELETE carry none.
NoBody == [username |-> "", email |-> "", password |-> ""]

\* Bodies with every field present.
FullBodies == [username : Names, email : Emails, password : Passwords]

\* Bodies with at least one field missing.
PartialBodies ==
    {b \in [username : {"u1", ""}, email : {"e1", ""}, password : {"p1", ""}] :
        b.username = "" \/ b.email = "" \/ b.password = ""}

\* Bodies of register and PUT requests handled one at a time.
AllBodies == FullBodies \cup PartialBodies

\* Bodies used by the concurrent specification: two full bodies with the same email,
\* so that requests collide, and one with a missing field.
ConcBodies ==
    {[username |-> "u1", email |-> "e1", password |-> "p1"],
     [username |-> "u2", email |-> "e1", password |-> "p2"],
     [username |-> "", email |-> "e1", password |-> "p1"]}

\* Bodies used by the specification with fairness.
FairBodies ==
    {[username |-> "u1", email |-> "e1", password |-> "p1"],
     [username |-> "", email |-> "e1", password |-> "p1"]}

\* JavaScript `!v` for a string-valued body field.
Missing(v) == v = ""

\* JavaScript `!user` for a UnitUser | null.
NotUser(u) == u = NoUser

\* JavaScript `!allUsers` for an array: every array, the empty one included, is truthy.
NotArray(a) == FALSE

\* ------------------------------------------------------------ record store
RECURSIVE FirstWith(_, _, _)
FirstWith(s, field, v) ==
    IF s = <<>> THEN NoUser
    ELSE IF Head(s)[field] = v THEN Head(s)
    ELSE FirstWith(Tail(s), field, v)

findAll(s) == s

findOne(s, id) == FirstWith(s, "id", id)

findByEmail(s, email) == FirstWith(s, "email", email)

\* The record create() stores and returns.
NewUser(nid, body) ==
    [id |-> nid, username |-> body.username, email |-> body.email, password |-> body.password]

create(s, nid, body) == Append(s, NewUser(nid, body))

\* The store after update(id, body): the record's mutable fields replaced; no record is created.
update(s, id, body) ==
    [i \in 1..Len(s) |-> IF s[i].id = id THEN NewUser(id, body) ELSE s[i]]

\* What update(id, body) returns: the updated record, or null when id is absent.
updateResult(s, id, body) == findOne(update(s, id, body), id)

remove(s, id) == SelectSeq(s, LAMBDA u : u.id # id)

comparePassword(s, email, password) ==
    LET u == findByEmail(s, email)
    IN  u # NoUser /\ u.password = password

\* ------------------------------------------------------------------- state
VARIABLES store, nextId, reqs

vars == <<store, nextId, reqs>>

\* A slot with no request.
Idle ==
    [op |-> "none", id |-> 0, body |-> NoBody, pc |-> "idle", user |-> NoUser,
     resp |-> 0, total |-> 0, ruser |-> NoUser, calls |-> 0, nresp |-> 0, threw |-> FALSE]

InFlight(r) == reqs[r].pc \notin {"idle", "done"}

\* A new request in slot r, suspended on its first store call.
Arrive(op, id, body, pc) ==
    [Idle EXCEPT !.op = op, !.id = id, !.body = body, !.pc = pc]

\* res.status(status).json(...): the handler returns.
Respond(q, status, total, ruser) ==
    [q EXCEPT !.pc = "done", !.resp = status, !.total = total, !.ruser = ruser,
              !.nresp = @ + 1]

\* The store call the handler awaited has been made.
Called(q) == [q EXCEPT !.calls = @ + 1]

\* Mutant: no catch block, the fault leaves the handler and no response is sent.
Catch_Escapes(q) == [Called(q) EXCEPT !.threw = TRUE, !.pc = "done"]

\* catch (error) { return res.status(500).json({ error }) } after the awaited call threw.
Catch(q) == Respond([Called(q) EXCEPT !.threw = TRUE], 500, 0, NoUser)

Init ==
    /\ store = <<>>
    /\ nextId = 1
    /\ reqs = [r \in Reqs |-> Idle]

\* Slot r becomes q; the store is not touched.
Only(r, q) ==
    /\ reqs' = [reqs EXCEPT ![r] = q]
    /\ UNCHANGED <<store, nextId>>

\* Registrations that have passed validation and not yet called create().
PendingCreates == {r \in Reqs : InFlight(r) /\ reqs[r].op = "register"}

\* ----------------------------------------------------------- GET /users
BeginGetUsers(r) ==
    /\ ~InFlight(r)
    /\ Only(r, Arrive("getUsers", 0, NoBody, "findAll"))

GetUsersFindAll(r) ==
    /\ reqs[r].op = "getUsers" /\ reqs[r].pc = "findAll"
    /\ \E ok \in BOOLEAN :
         IF ~ok THEN Only(r, Catch(reqs[r]))
         ELSE LET allUsers == findAll(store)
              IN  IF NotArray(allUsers)
                  THEN Only(r, Respond(Called(reqs[r]), 404, 0, NoUser))
                  ELSE Only(r, Respond(Called(reqs[r]), 200, Len(allUsers), NoUser))

\* ------------------------------------------------------- GET /users/:id
BeginGetUser(r, id) ==
    /\ ~InFlight(r)
    /\ Only(r, Arrive("getUser", id, NoBody, "findOne"))

GetUserFindOne(r) ==
    /\ reqs[r].op = "getUser" /\ reqs[r].pc = "findOne"
    /\ \E ok \in BOOLEAN :
         IF ~ok THEN Only(r, Catch(reqs[r]))
         ELSE LET user == findOne(store, reqs[r].id)
              IN  IF NotUser(user)
                  THEN Only(r, Respond(Called(reqs[r]), 404, 0, NoUser))
                  ELSE Only(r, Respond(Called(reqs[r]), 200, 0, user))

\* ------------------------------------------------------- POST /register
BeginRegister(r, body) ==
    /\ ~InFlight(r)
    /\ IF Missing(body.username) \/ Missing(body.email) \/ Missing(body.password)
       THEN Only(r, Respond(Arrive("register", 0, body, "idle"), 400, 0, NoUser))
       ELSE /\ nextId + Cardinality(PendingCreates) <= MaxId
            /\ Only(r, Arrive("register", 0, body, "findByEmail"))

\* Mutant: the handler does not look at what findByEmail returned.
RegisterFindByEmail_NoDuplicateCheck(r) ==
    /\ reqs[r].op = "register" /\ reqs[r].pc = "findByEmail"
    /\ \E ok \in BOOLEAN :
         IF ~ok THEN Only(r, Catch(reqs[r]))
         ELSE Only(r, [Called(reqs[r]) EXCEPT !.pc = "create"])

RegisterFindByEmail(r) ==
    /\ reqs[r].op = "register" /\ reqs[r].pc = "findByEmail"
    /\ \E ok \in BOOLEAN :
         IF ~ok THEN Only(r, Catch(reqs[r]))
         ELSE LET user == findByEmail(store, reqs[r].body.email)
              IN  IF ~NotUser(user)
                  THEN Only(r, Respond(Called(reqs[r]), 400, 0, NoUser))
                  ELSE Only(r, [Called(reqs[r]) EXCEPT !.pc = "create", !.user = user])

\* Mutant: create() inserts only if the email is still free (check and insert in one step).
RegisterCreate_ConditionalInsert(r) ==
    /\ reqs[r].op = "register" /\ reqs[r].pc = "create"
    /\ \E ok \in BOOLEAN :
         IF ~ok THEN Only(r, Catch(reqs[r]))
         ELSE IF ~NotUser(findByEmail(store, reqs[r].body.email))
         THEN Only(r, Respond(Called(reqs[r]), 400, 0, NoUser))
         ELSE /\ store' = create(store, nextId, reqs[r].body)
              /\ nextId' = nextId + 1
              /\ reqs' = [reqs EXCEPT ![r] =
                            Respond(Called(reqs[r]), 201, 0, NewUser(nextId, reqs[r].body))]

RegisterCreate(r) ==
    /\ reqs[r].op = "register" /\ reqs[r].pc = "create"
    /\ \E ok \in BOOLEAN :
         IF ~ok THEN Only(r, Catch(reqs[r]))
         ELSE /\ store' = create(store, nextId, reqs[r].body)
              /\ nextId' = nextId + 1
              /\ reqs' = [reqs EXCEPT ![r] =
                            Respond(Called(reqs[r]), 201, 0, NewUser(nextId, reqs[r].body))]

\* ---------------------------------------------------------- POST /login
BeginLogin(r, body) ==
    /\ ~InFlight(r)
    /\ body.username = ""
    /\ IF Missing(body.email) \/ Missing(body.password)
       THEN Only(r, Respond(Arrive("login", 0, body, "idle"), 400, 0, NoUser))
       ELSE Only(r, Arrive("login", 0, body, "findByEmail"))

LoginFindByEmail(r) ==
    /\ reqs[r].op = "login" /\ reqs[r].pc = "findByEmail"
    /\ \E ok \in BOOLEAN :
         IF ~ok THEN Only(r, Catch(reqs[r]))
         ELSE LET user == findByEmail(store, reqs[r].body.email)
              IN  IF NotUser(user)
                  THEN Only(r, Respond(Called(reqs[r]), 404, 0, NoUser))
                  ELSE Only(r, [Called(reqs[r]) EXCEPT !.pc = "comparePassword", !.user = user])

\* Mutant: the result of comparePassword is ignored.
LoginComparePassword_Ignored(r) ==
    /\ reqs[r].op = "login" /\ reqs[r].pc = "comparePassword"
    /\ \E ok \in BOOLEAN :
         IF ~ok THEN Only(r, Catch(reqs[r]))
         ELSE Only(r, Respond(Called(reqs[r]), 200, 0, reqs[r].user))

LoginComparePassword(r) ==
    /\ reqs[r].op = "login" /\ reqs[r].pc = "comparePassword"
    /\ \E ok \in BOOLEAN :
         IF ~ok THEN Only(r, Catch(reqs[r]))
         ELSE LET matches == comparePassword(store, reqs[r].body.email, reqs[r].body.password)
              IN  IF ~matches
                  THEN Only(r, Respond(Called(reqs[r]), 400, 0, NoUser))
                  ELSE Only(r, Respond(Called(reqs[r]), 200, 0, reqs[r].user))

\* ------------------------------------------------------- PUT /users/:id
BeginPut(r, id, body) ==
    /\ ~InFlight(r)
    /\ Only(r, Arrive("put", id, body, "findOne"))

\* Mutant: the handler does not test getUser.
PutFindOne_NoNotFound(r) ==
    /\ reqs[r].op = "put" /\ reqs[r].pc = "findOne"
    /\ \E ok \in BOOLEAN :
         IF ~ok THEN Only(r, Catch(reqs[r]))
         ELSE LET getUser == findOne(store, reqs[r].id)
                  body == reqs[r].body
              IN  IF Missing(body.username) \/ Missing(body.email) \/ Missing(body.password)
                  THEN Only(r, Respond(Called(reqs[r]), 401, 0, NoUser))
                  ELSE Only(r, [Called(reqs[r]) EXCEPT !.pc = "update", !.user = getUser])

\* Mutant: the not-found test comes before the missing-field test.
PutFindOne_NotFoundFirst(r) ==
    /\ reqs[r].op = "put" /\ reqs[r].pc = "findOne"
    /\ \E ok \in BOOLEAN :
         IF ~ok THEN Only(r, Catch(reqs[r]))
         ELSE LET getUser == findOne(store, reqs[r].id)
                  body == reqs[r].body
              IN  IF NotUser(getUser)
                  THEN Only(r, Respond(Called(reqs[r]), 404, 0, NoUser))
                  ELSE IF Missing(body.username) \/ Missing(body.email) \/ Missing(body.password)
                  THEN Only(r, Respond(Called(reqs[r]), 401, 0, NoUser))
                  ELSE Only(r, [Called(reqs[r]) EXCEPT !.pc = "update", !.user = getUser])

\* Mutant: PUT refuses an email that another record already has, as register does.
PutFindOne_DuplicateCheck(r) ==
    /\ reqs[r].op = "put" /\ reqs[r].pc = "findOne"
    /\ \E ok \in BOOLEAN :
         IF ~ok THEN Only(r, Catch(reqs[r]))
         ELSE LET getUser == findOne(store, reqs[r].id)
                  body == reqs[r].body
                  other == findByEmail(store, body.email)
              IN  IF Missing(body.username) \/ Missing(body.email) \/ Missing(body.password)
                  THEN Only(r, Respond(Called(reqs[r]), 401, 0, NoUser))
                  ELSE IF NotUser(getUser)
                  THEN Only(r, Respond(Called(reqs[r]), 404, 0, NoUser))
                  ELSE IF ~NotUser(other) /\ other.id # reqs[r].id
                  THEN Only(r, Respond(Called(reqs[r]), 400, 0, NoUser))
                  ELSE Only(r, [Called(reqs[r]) EXCEPT !.pc = "update", !.user = getUser])

PutFindOne(r) ==
    /\ reqs[r].op = "put" /\ reqs[r].pc = "findOne"
    /\ \E ok \in BOOLEAN :
         IF ~ok THEN Only(r, Catch(reqs[r]))
         ELSE LET getUser == findOne(store, reqs[r].id)
                  body == reqs[r].body
              IN  IF Missing(body.username) \/ Missing(body.email) \/ Missing(body.password)
                  THEN Only(r, Respond(Called(reqs[r]), 401, 0, NoUser))
                  ELSE IF NotUser(getUser)
                  THEN Only(r, Respond(Called(reqs[r]), 404, 0, NoUser))
                  ELSE Only(r, [Called(reqs[r]) EXCEPT !.pc = "update", !.user = getUser])

PutUpdate(r) ==
    /\ reqs[r].op = "put" /\ reqs[r].pc = "update"
    /\ \E ok \in BOOLEAN :
         IF ~ok THEN Only(r, Catch(reqs[r]))
         ELSE /\ store' = update(store, reqs[r].id, reqs[r].body)
              /\ UNCHANGED nextId
              /\ reqs' = [reqs EXCEPT ![r] =
                            Respond(Called(reqs[r]), 201, 0,
                                    updateResult(store, reqs[r].id, reqs[r].body))]

\* ---------------------------------------------------- DELETE /users/:id
BeginDelete(r, id) ==
    /\ ~InFlight(r)
    /\ Only(r, Arrive("delete", id, NoBody, "findOne"))

\* Mutant: the handler does not test user.
DeleteFindOne_NoNotFound(r) ==
    /\ reqs[r].op = "delete" /\ reqs[r].pc = "findOne"
    /\ \E ok \in BOOLEAN :
         IF ~ok THEN Only(r, Catch(reqs[r]))
         ELSE Only(r, [Called(reqs[r]) EXCEPT !.pc = "remove"])

DeleteFindOne(r) ==
    /\ reqs[r].op = "delete" /\ reqs[r].pc = "findOne"
    /\ \E ok \in BOOLEAN :
         IF ~ok THEN Only(r, Catch(reqs[r]))
         ELSE LET user == findOne(store, reqs[r].id)
              IN  IF NotUser(user)
                  THEN Only(r, Respond(Called(reqs[r]), 404, 0, NoUser))
                  ELSE Only(r, [Called(reqs[r]) EXCEPT !.pc = "remove", !.user = user])

DeleteRemove(r) ==
    /\ reqs[r].op = "delete" /\ reqs[r].pc = "remove"
    /\ \E ok \in BOOLEAN :
         IF ~ok THEN Only(r, Catch(reqs[r]))
         ELSE /\ store' = remove(store, reqs[r].id)
              /\ UNCHANGED nextId
              /\ reqs' = [reqs EXCEPT ![r] = Respond(Called(reqs[r]), 200, 0, NoUser)]

\* ---------------------------------------------------------- specifications
\* Bodies of login requests: email and password only.
LoginBodies(B) == {[b EXCEPT !.username = ""] : b \in B}

\* A request arrives in slot r with a body of B.
Begin(r, B) ==
    \/ BeginGetUsers(r)
    \/ \E id \in Ids : BeginGetUser(r, id)
    \/ \E body \in B : BeginRegister(r, body)
    \/ \E body \in LoginBodies(B) : BeginLogin(r, body)
    \/ \E id \in Ids, body \in B : BeginPut(r, id, body)
    \/ \E id \in Ids : BeginDelete(r, id)

\* The handler in slot r resumes after the store call it awaited.
Resume(r) ==
    \/ GetUsersFindAll(r)
    \/ GetUserFindOne(r)
    \/ RegisterFindByEmail(r)
    \/ RegisterCreate(r)
    \/ LoginFindByEmail(r)
    \/ LoginComparePassword(r)
    \/ PutFindOne(r)
    \/ PutUpdate(r)
    \/ DeleteFindOne(r)
    \/ DeleteRemove(r)

\* Requests handled concurrently: handlers interleave at their awaits.
Next == \E r \in Reqs : Begin(r, ConcBodies) \/ Resume(r)

Spec == Init /\ [][Next]_vars

\* Concurrent requests over FairBodies; every pending continuation is eventually run
\* by the event loop.
FairNext == \E r \in Reqs : Begin(r, FairBodies) \/ Resume(r)

FairSpec == Init /\ [][FairNext]_vars /\ \A r \in Reqs : WF_vars(Resume(r))

\* Requests handled one at a time.
SeqNext == \E r \in SeqReqs : Begin(r, AllBodies) \/ Resume(r)

SeqSpec == Init /\ [][SeqNext]_vars

\* Only POST /register requests, one at a time.
RegNext ==
    \E r \in SeqReqs :
        \/ \E body \in AllBodies : BeginRegister(r, body)
        \/ RegisterFindByEmail(r)
        \/ RegisterCreate(r)

RegSpec == Init /\ [][RegNext]_vars

\* ------------------------------------------------------------- properties
\* The number of stored records whose email is e.
EmailCount(s, e) == Cardinality({i \in 1..Len(s) : s[i].email = e})

Records(s) == {s[i] : i \in 1..Len(s)}

StoredIds(s) == {s[i].id : i \in 1..Len(s)}

AllPresent(body) == body.username # "" /\ body.email # "" /\ body.password # ""

\* In this step the handler in slot r resumes and sends its response.
Finishes(r) == InFlight(r) /\ reqs'[r].pc = "done"

\* In this step a request arrives in slot r.
Arrives(r) == ~InFlight(r) /\ reqs'[r] # reqs[r]

\* s2 is s with zero or more records appended.
Extends(s, s2) == Len(s) <= Len(s2) /\ \A i \in 1..Len(s) : s2[i] = s[i]

\* C1: with register requests handled one at a time, a register whose email a stored
\* user already has answers 400 and creates nothing, a 201 leaves exactly one record
\* with its email, records are never lost, and no two records ever share an email.
C1_Step ==
    /\ \A e \in Emails : EmailCount(store', e) <= 1
    /\ Extends(store, store')
    /\ \A r \in SeqReqs :
         /\ ( /\ reqs[r].op = "register" /\ Finishes(r) /\ ~reqs'[r].threw
              /\ EmailCount(store, reqs[r].body.email) > 0 )
            => reqs'[r].resp = 400 /\ store' = store
         /\ (Finishes(r) /\ reqs'[r].resp = 201)
            => /\ EmailCount(store, reqs[r].body.email) = 0
               /\ EmailCount(store', reqs[r].body.email) = 1
               /\ Len(store') = Len(store) + 1

C1_SequentialRegisterUnique == [][C1_Step]_vars

\* C1 witness: a second register with a stored email has been answered 400.
C1_Witness ==
    \E r \in SeqReqs :
        /\ reqs[r].op = "register" /\ reqs[r].pc = "done" /\ reqs[r].resp = 400
        /\ AllPresent(reqs[r].body)
        /\ EmailCount(store, reqs[r].body.email) = 1

\* C2: a register that passed the duplicate check and resumes at create() after another
\* request has stored the same email still creates its record and answers 201, so the
\* store holds one more record with that email than before.
C2_Step ==
    \A r \in Reqs :
        ( /\ reqs[r].op = "register" /\ reqs[r].pc = "create"
          /\ Finishes(r) /\ ~reqs'[r].threw
          /\ EmailCount(store, reqs[r].body.email) > 0 )
        => /\ reqs'[r].resp = 201
           /\ EmailCount(store', reqs[r].body.email) = EmailCount(store, reqs[r].body.email) + 1

C2_ConcurrentRegisterDuplicates == [][C2_Step]_vars

\* C2 witness: two registers with the same email have both been answered 201 and the
\* store holds both records.
C2_Witness ==
    \E r1, r2 \in Reqs :
        /\ r1 # r2
        /\ reqs[r1].op = "register" /\ reqs[r1].resp = 201
        /\ reqs[r2].op = "register" /\ reqs[r2].resp = 201
        /\ reqs[r1].body.email = reqs[r2].body.email
        /\ reqs[r1].ruser \in Records(store) /\ reqs[r2].ruser \in Records(store)
        /\ EmailCount(store, reqs[r1].body.email) = 2

\* C3: GET /users answers 404 when the store holds no record and otherwise 200 with
\* total_user the number of stored records.
C3_ListEmptyIs404 ==
    \A r \in SeqReqs :
        (reqs[r].op = "getUsers" /\ reqs[r].pc = "done" /\ ~reqs[r].threw)
        => IF store = <<>>
           THEN reqs[r].resp = 404
           ELSE reqs[r].resp = 200 /\ reqs[r].total = Len(store)

\* C4: a PUT with all three fields, handled alone: an absent id is answered 404 and the
\* store is unchanged; a stored id is answered 201, its record takes the supplied
\* username, email and password, keeps its id, and every other record is unchanged.
C4_Step ==
    \A r \in SeqReqs :
        LET q == reqs[r]
        IN  (q.op = "put" /\ InFlight(r) /\ AllPresent(q.body))
            => /\ (~Finishes(r) \/ reqs'[r].threw) => store' = store
               /\ (Finishes(r) /\ ~reqs'[r].threw)
                  => IF q.id \notin StoredIds(store)
                     THEN reqs'[r].resp = 404 /\ store' = store
                     ELSE /\ reqs'[r].resp = 201
                          /\ Len(store') = Len(store)
                          /\ \A i \in 1..Len(store) :
                               IF store[i].id = q.id
                               THEN /\ store'[i].id = q.id
                                    /\ store'[i].username = q.body.username
                                    /\ store'[i].email = q.body.email
                                    /\ store'[i].password = q.body.password
                                    /\ reqs'[r].ruser = store'[i]
                               ELSE store'[i] = store[i]

C4_SequentialPut == [][C4_Step]_vars

\* C4 witness: a PUT has been answered 201, the stored record has the supplied values
\* and differs from the record the handler found, and another record is stored.
C4_Witness ==
    \E r \in SeqReqs :
        /\ reqs[r].op = "put" /\ reqs[r].pc = "done" /\ reqs[r].resp = 201
        /\ reqs[r].ruser \in Records(store)
        /\ reqs[r].ruser.username # reqs[r].user.username
        /\ reqs[r].ruser.email # reqs[r].user.email
        /\ reqs[r].ruser.password # reqs[r].user.password
        /\ Len(store) = 2

\* C5: a DELETE handled alone: an absent id is answered 404 and the store is unchanged;
\* a stored id is answered 200, exactly that record is removed and every other record
\* is unchanged.
C5_Step ==
    \A r \in SeqReqs :
        LET q == reqs[r]
        IN  (q.op = "delete" /\ InFlight(r))
            => /\ (~Finishes(r) \/ reqs'[r].threw) => store' = store
               /\ (Finishes(r) /\ ~reqs'[r].threw)
                  => IF q.id \notin StoredIds(store)
                     THEN reqs'[r].resp = 404 /\ store' = store
                     ELSE /\ reqs'[r].resp = 200
                          /\ Len(store') = Len(store) - 1
                          /\ q.id \notin StoredIds(store')
                          /\ Records(store') = {u \in Records(store) : u.id # q.id}

C5_SequentialDelete == [][C5_Step]_vars

\* C5 witness: a DELETE has been answered 200, its id is gone and another record remains.
C5_Witness ==
    \E r \in SeqReqs :
        /\ reqs[r].op = "delete" /\ reqs[r].pc = "done" /\ reqs[r].resp = 200
        /\ reqs[r].id \notin StoredIds(store)
        /\ Len(store) = 1

\* C6: a login with email and password present answers 404 when no stored user has the
\* email, 400 when the user found by that email has another password, 200 with that
\* user's record when the password is the stored one; the store is never changed.
C6_Step ==
    \A r \in SeqReqs :
        LET q == reqs[r]
            first == {i \in 1..Len(store) :
                        /\ store[i].email = q.body.email
                        /\ \A j \in 1..(i - 1) : store[j].email # q.body.email}
        IN  /\ (q.op = "login" /\ InFlight(r)) => store' = store
            /\ (Arrives(r) /\ reqs'[r].op = "login") => store' = store
            /\ (q.op = "login" /\ Finishes(r) /\ ~reqs'[r].threw)
               => IF first = {}
                  THEN reqs'[r].resp = 404
                  ELSE \A i \in first :
                         IF store[i].password # q.body.password
                         THEN reqs'[r].resp = 400
                         ELSE reqs'[r].resp = 200 /\ reqs'[r].ruser = store[i]

C6_Login == [][C6_Step]_vars

\* C6 witness: a login with a stored email and another password has been answered 400.
C6_Witness ==
    \E r \in SeqReqs :
        /\ reqs[r].op = "login" /\ reqs[r].pc = "done" /\ reqs[r].resp = 400
        /\ reqs[r].calls = 2
        /\ \E u \in Records(store) :
             u.email = reqs[r].body.email /\ u.password # reqs[r].body.password

\* C7: a register with a field missing is answered 400 at once, without a store call and
\* without a record; a PUT with a field missing is answered 401 whether or not its id is
\* stored, and no step of it changes the store.
C7_Step ==
    \A r \in SeqReqs :
        LET q == reqs[r]
        IN  /\ (Arrives(r) /\ reqs'[r].op = "register" /\ ~AllPresent(reqs'[r].body))
               => /\ reqs'[r].pc = "done" /\ reqs'[r].resp = 400
                  /\ reqs'[r].calls = 0
                  /\ store' = store
            /\ (q.op = "put" /\ InFlight(r) /\ ~AllPresent(q.body))
               => /\ store' = store
                  /\ Finishes(r)
                  /\ ~reqs'[r].threw => reqs'[r].resp = 401

C7_MissingFields == [][C7_Step]_vars

\* C7 witness: a PUT of an absent id with one field missing has been answered 401.
C7_Witness ==
    \E r \in SeqReqs :
        /\ reqs[r].op = "put" /\ reqs[r].pc = "done" /\ reqs[r].resp = 401
        /\ reqs[r].body.password = "" /\ reqs[r].body.email # "" /\ reqs[r].body.username # ""
        /\ reqs[r].id \notin StoredIds(store)
        /\ store # <<>>

\* C8: every request is eventually answered, exactly once; a request one of whose store
\* calls threw is answered 500 and makes no store call after the one that threw.
C8_Safe ==
    \A r \in Reqs :
        /\ reqs[r].pc = "done" => reqs[r].nresp = 1 /\ reqs[r].resp # 0
        /\ InFlight(r) => reqs[r].nresp = 0 /\ ~reqs[r].threw
        /\ reqs[r].threw => reqs[r].pc = "done" /\ reqs[r].resp = 500

C8_NoCallAfterThrow ==
    \A r \in Reqs :
        (reqs[r].threw /\ reqs'[r].threw) => reqs'[r].calls = reqs[r].calls

C8_EveryRequestAnswered ==
    /\ []C8_Safe
    /\ [][C8_NoCallAfterThrow]_vars
    /\ \A r \in Reqs : InFlight(r) ~> (reqs[r].pc = "done")

\* C8 witness: a request whose second store call threw has been answered 500.
C8_Witness ==
    \E r \in Reqs :
        /\ reqs[r].pc = "done" /\ reqs[r].threw /\ reqs[r].resp = 500
        /\ reqs[r].calls = 2 /\ reqs[r].nresp = 1

\* C9: with PUT and DELETE handlers interleaved, an update or remove whose id is absent
\* when it is applied is answered 404 (never 201 or 200) and leaves no record for the id.
C9_Step ==
    \A r \in Reqs :
        ( /\ reqs[r].op \in {"put", "delete"} /\ reqs[r].pc \in {"update", "remove"}
          /\ Finishes(r) /\ ~reqs'[r].threw
          /\ reqs[r].id \notin StoredIds(store) )
        => reqs'[r].resp = 404 /\ reqs[r].id \notin StoredIds(store')

C9_AbsentTargetIs404 == [][C9_Step]_vars

\* C10: PUT makes no duplicate-email check: handled alone, a PUT of a stored id with an
\* email that another record has is answered 201 and two records then share the email;
\* a login answered 200 returns the first stored record with its email.
C10_Step ==
    \A r \in SeqReqs :
        LET q == reqs[r]
        IN  /\ ( /\ q.op = "put" /\ AllPresent(q.body) /\ Finishes(r) /\ ~reqs'[r].threw
                 /\ q.id \in StoredIds(store)
                 /\ \E u \in Records(store) : u.id # q.id /\ u.email = q.body.email )
               => /\ reqs'[r].resp = 201
                  /\ EmailCount(store', q.body.email) >= 2
            /\ (q.op = "login" /\ Finishes(r) /\ reqs'[r].resp = 200)
               => \E i \in 1..Len(store) :
                    /\ reqs'[r].ruser = store[i]
                    /\ store[i].email = q.body.email
                    /\ \A j \in 1..(i - 1) : store[j].email # q.body.email

C10_PutSharesEmail == [][C10_Step]_vars

\* C10 witness: two stored records share an email and a login with it has been answered
\* 200 with the first of them.
C10_Witness ==
    \E r \in SeqReqs :
        /\ reqs[r].op = "login" /\ reqs[r].pc = "done" /\ reqs[r].resp = 200
        /\ Len(store) = 2
        /\ store[1].email = store[2].email
        /\ store[1].password # store[2].password
        /\ reqs[r].body.email = store[1].email
        /\ reqs[r].ruser = store[1]

====
